---- MODULE Spec2Model ----
(***************************************************************************)
(* A model of the scratch-off widget of src/src/index.js: the host glue    *)
(* (myInit), the ScratchIt engine (construct, the two image loads and      *)
(* their join in onCanvasLoaded, the pointer handlers, addPoint, the       *)
(* requestAnimationFrame loop draw, the debounced onResize, testRevealed). *)
(*                                                                         *)
(* Every handler runs to completion (the browser's single thread), so one  *)
(* action is one handler.  A handler is written as an operator from the    *)
(* record of all variables (World) to the record after it, the way the     *)
(* code runs its statements one after the other.                           *)
(*                                                                         *)
(* Numbers.  Pointer coordinates are integers (CSS pixels).  The scale is  *)
(* the rational overlayCanvas.width / containerWidth, kept as a fraction;  *)
(* a scaled point is kept as numerators over a common denominator, and     *)
(* Math.round, Math.sqrt and Math.ceil are computed exactly on fractions.  *)
(* The container widths drawn are the overlay width times a power of two,  *)
(* for which the code's doubles hold the scale exactly as well.            *)
(***************************************************************************)
EXTENDS Integers, Sequences, FiniteSets, TLC

(* ------------------------------ bounds -------------------------------- *)

\* Pointer presses, pointer moves and window resizes in one run (a release
\* ends a press and is not counted).
MaxEvents == 3
\* The clock advances in steps of TickMs milliseconds.
TickMs == 100
\* Natural size of the overlay image, in pixels.
OverlayW == 4
OverlayH == 2
\* The brush image is a square of 2*BrushHalf pixels (an even size keeps
\* every stamp aligned to the pixel grid: its corner is point - BrushHalf).
BrushHalf == 1

(* ------------------------- program constants -------------------------- *)

\* window.addEventListener('resize', debounce(onResize, 200))
ResizeWait == 200
\* const alphaThreshold = 128
alphaThreshold == 128
\* let minPointDist = 10
InitialMinPointDist == 10
\* Math.max(0, Math.min(100, threshold))
ThresholdMin == 0
ThresholdMax == 100
\* The largest value of an ImageData channel (8 bits): an opaque alpha.
Opaque == 256 - 1

(* ------------------------------ inputs -------------------------------- *)

\* Rendered widths of the container (getBoundingClientRect().width).
ContainerWidths == {OverlayW, 2 * OverlayW}

\* The width resizeParentEl gives the container when the overlay image has
\* loaded: the body is as wide as the image, so the image is shown at its
\* natural size until the window is resized.
FittedWidth == OverlayW

\* Where the pointer can be: offsets from the canvas' top-left, CSS pixels.
PointerOffsets ==
  { [x |-> 0, y |-> 0], [x |-> 1, y |-> 1], [x |-> 3, y |-> 1] }

\* The canvas' bounding rectangle origin in the viewport.
CanvasRect == [left |-> 1, top |-> 1]

\* The threshold argument given to the constructor (properties.revealPercent).
ThresholdArgs == {-10, 0, 50, 100, 150}

\* The alpha of the brush image's pixels.
BrushAlphas == {Opaque}

\* The browsers the widget is loaded in: a current one, an old one without
\* pointer events that needs the IE9 breather (requestAnimationFrame
\* polyfilled), one without requestAnimationFrame, one without a 2D context.
Environments ==
  { [raf |-> TRUE,  canvas2d |-> TRUE,  PointerEvent |-> TRUE,  ie9 |-> FALSE],
    [raf |-> TRUE,  canvas2d |-> TRUE,  PointerEvent |-> FALSE, ie9 |-> TRUE],
    [raf |-> FALSE, canvas2d |-> TRUE,  PointerEvent |-> FALSE, ie9 |-> FALSE],
    [raf |-> TRUE,  canvas2d |-> FALSE, PointerEvent |-> FALSE, ie9 |-> FALSE] }

(* ----------------------------- arithmetic ----------------------------- *)

Min(a, b) == IF a < b THEN a ELSE b
Max(a, b) == IF a > b THEN a ELSE b

\* Math.round(n / d) for d > 0: the nearest integer, a half rounding up.
Round(n, d) == (2 * n + d) \div (2 * d)

\* The least k >= from with k * k * b >= a (b > 0).
RECURSIVE LeastSquareAtLeast(_, _, _)
LeastSquareAtLeast(from, a, b) ==
  IF from * from * b >= a THEN from ELSE LeastSquareAtLeast(from + 1, a, b)

(* ------------------------------- state -------------------------------- *)

VARIABLES
  env,              \* the browser's capabilities (fixed)
  pc,               \* the host glue: "start", then "done" once myInit or the caller ran
  thrown,           \* the exception construct threw ("" for none)
  notSupportedSent, \* PandaBridge.send('notSupported') count
  errorLogs,        \* console.error count
  \* the closure variables of ScratchIt()
  overlayCanvas, brushCanvas, overlayLoaded, brushLoaded,
  isPointerDown, pointerOrigin, offsetOrigin, scale, paintQueue, lastPoint,
  minPointDist, isRevealed, revealThreshold,
  \* the browser side of the engine
  overlayImage, brushImage,  \* each Image(): "none", "loading", "breather", "settled"
  appended,         \* parentEl.appendChild(overlayCanvas) happened
  listeners,        \* the attached listeners, <<target, type, handler>>
  rafPending,       \* requestAnimationFrame callbacks waiting for a frame
  timers,           \* the debounce's pending setTimeout timers: elapsed ms of each
  timeout,          \* the debounce closure's variable: "undefined", "null", "id"
  containerWidth,   \* parentEl.getBoundingClientRect().width
  pixels,           \* the overlay canvas' alpha channel, pixel -> 0..255
  brushAlpha,       \* the brush canvas' alpha
  \* what the callbacks and the clock let one observe
  revealCalls, loadedCalls, downCalls, upCalls,
  resizeRuns,       \* onResize runs since the last window resize event
  sinceResize,      \* ms since the last window resize event (up to ResizeWait)
  burst,            \* resize events each less than ResizeWait after the one before
  events,           \* presses, moves and resizes so far
  calls,            \* the callbacks invoked so far, in order
  drawn,            \* the points drawImage stamped so far, in order
  detached          \* the host has removed the container from the document

vars ==
  << env, pc, thrown, notSupportedSent, errorLogs,
     overlayCanvas, brushCanvas, overlayLoaded, brushLoaded,
     isPointerDown, pointerOrigin, offsetOrigin, scale, paintQueue, lastPoint,
     minPointDist, isRevealed, revealThreshold,
     overlayImage, brushImage, appended, listeners, rafPending, timers, timeout,
     containerWidth, pixels, brushAlpha,
     revealCalls, loadedCalls, downCalls, upCalls, resizeRuns, sinceResize, burst,
     events, calls, drawn, detached >>

\* All variables as one record: what a handler reads and what it returns.
World ==
  [ env |-> env, pc |-> pc, thrown |-> thrown,
    notSupportedSent |-> notSupportedSent, errorLogs |-> errorLogs,
    overlayCanvas |-> overlayCanvas, brushCanvas |-> brushCanvas,
    overlayLoaded |-> overlayLoaded, brushLoaded |-> brushLoaded,
    isPointerDown |-> isPointerDown, pointerOrigin |-> pointerOrigin,
    offsetOrigin |-> offsetOrigin, scale |-> scale, paintQueue |-> paintQueue,
    lastPoint |-> lastPoint, minPointDist |-> minPointDist,
    isRevealed |-> isRevealed, revealThreshold |-> revealThreshold,
    overlayImage |-> overlayImage, brushImage |-> brushImage,
    appended |-> appended, listeners |-> listeners, rafPending |-> rafPending,
    timers |-> timers, timeout |-> timeout, containerWidth |-> containerWidth,
    pixels |-> pixels, brushAlpha |-> brushAlpha,
    revealCalls |-> revealCalls, loadedCalls |-> loadedCalls,
    downCalls |-> downCalls, upCalls |-> upCalls,
    resizeRuns |-> resizeRuns, sinceResize |-> sinceResize, burst |-> burst,
    events |-> events, calls |-> calls, drawn |-> drawn, detached |-> detached ]

\* The next state is the record w.
Becomes(w) ==
  /\ env' = w.env /\ pc' = w.pc /\ thrown' = w.thrown
  /\ notSupportedSent' = w.notSupportedSent /\ errorLogs' = w.errorLogs
  /\ overlayCanvas' = w.overlayCanvas /\ brushCanvas' = w.brushCanvas
  /\ overlayLoaded' = w.overlayLoaded /\ brushLoaded' = w.brushLoaded
  /\ isPointerDown' = w.isPointerDown /\ pointerOrigin' = w.pointerOrigin
  /\ offsetOrigin' = w.offsetOrigin /\ scale' = w.scale
  /\ paintQueue' = w.paintQueue /\ lastPoint' = w.lastPoint
  /\ minPointDist' = w.minPointDist /\ isRevealed' = w.isRevealed
  /\ revealThreshold' = w.revealThreshold
  /\ overlayImage' = w.overlayImage /\ brushImage' = w.brushImage
  /\ appended' = w.appended /\ listeners' = w.listeners
  /\ rafPending' = w.rafPending /\ timers' = w.timers /\ timeout' = w.timeout
  /\ containerWidth' = w.containerWidth /\ pixels' = w.pixels
  /\ brushAlpha' = w.brushAlpha
  /\ revealCalls' = w.revealCalls /\ loadedCalls' = w.loadedCalls
  /\ downCalls' = w.downCalls /\ upCalls' = w.upCalls
  /\ resizeRuns' = w.resizeRuns /\ sinceResize' = w.sinceResize
  /\ burst' = w.burst
  /\ events' = w.events
  /\ calls' = w.calls /\ drawn' = w.drawn /\ detached' = w.detached

\* The pixels of the overlay canvas.
Pixels == (0 .. OverlayW - 1) \X (0 .. OverlayH - 1)

\* revealThreshold before construct assigns it (`let revealThreshold;`): a
\* value no clamped threshold takes.
NoThreshold == ThresholdMin - 1

\* lastPoint before any point and after a release (void 0).
Undefined == [undefined |-> TRUE]

\* { x: 0, y: 0 }
Origin == [x |-> 0, y |-> 0]

\* The state after `function ScratchIt() { let ...` and before construct runs,
\* in a document whose container has some rendered width.
Init ==
  /\ env \in Environments
  /\ pc = "start"
  /\ thrown = ""
  /\ notSupportedSent = 0
  /\ errorLogs = 0
  /\ overlayCanvas = "undefined" /\ brushCanvas = "undefined"
  /\ overlayLoaded = FALSE /\ brushLoaded = FALSE
  /\ isPointerDown = FALSE
  /\ pointerOrigin = Origin /\ offsetOrigin = Origin
  /\ scale = [num |-> 1, den |-> 1]
  /\ paintQueue = << >>
  /\ lastPoint = Undefined
  /\ minPointDist = [num |-> InitialMinPointDist, den |-> 1]
  /\ isRevealed = FALSE
  /\ revealThreshold = NoThreshold
  /\ overlayImage = "none" /\ brushImage = "none"
  /\ appended = FALSE
  /\ listeners = {}
  /\ rafPending = 0
  /\ timers = << >>
  /\ timeout = "undefined"
  /\ containerWidth \in ContainerWidths
  /\ pixels = [q \in Pixels |-> Opaque]
  /\ brushAlpha \in BrushAlphas
  /\ revealCalls = 0 /\ loadedCalls = 0 /\ downCalls = 0 /\ upCalls = 0
  /\ resizeRuns = 0 /\ sinceResize = ResizeWait /\ burst = 0
  /\ events = 0
  /\ calls = << >> /\ drawn = << >>
  /\ detached = FALSE

(* ------------------------- the capability probe ----------------------- *)

\* A probe that forgets requestAnimationFrame.
isSupportedCanvasOnly(w) == w.env.canvas2d

\* ScratchIt.isSupported
isSupported(w) == w.env.raf /\ w.env.canvas2d

(* --------------------------- viewport scale --------------------------- *)

\* a / b and 1 / r on fractions.
Ratio(a, b) == [num |-> a, den |-> b]
Reciprocal(r) == [num |-> r.den, den |-> r.num]

\* onResize: scale = 1 / (parentEl.getBoundingClientRect().width / overlayCanvas.width)
onResize(w) ==
  [w EXCEPT !.scale = Reciprocal(Ratio(w.containerWidth, OverlayW)),
            !.resizeRuns = @ + 1]

\* A debounce that does not cancel the pending timer.
clearTimeoutMissing(w) == w

\* clearTimeout(timeout): the timer `timeout` names, when it is still pending,
\* is the one set last.
clearTimeout(w) ==
  IF w.timeout = "id" /\ w.timers # << >>
    THEN [w EXCEPT !.timers = SubSeq(@, 1, Len(@) - 1)]
    ELSE w

\* The function debounce(onResize, 200) returns, called by a window resize
\* event: immediate is undefined, so callNow is false and only the timer is reset.
debounced(w) ==
  LET c == clearTimeout(w)
  IN  [c EXCEPT !.timers = Append(@, 0), !.timeout = "id"]

\* `later`, the timer's callback: timeout = null; func.apply(context, args)
later(w) ==
  onResize([w EXCEPT !.timers = Tail(@), !.timeout = "null"])

(* ------------------------------ the join ------------------------------ *)

\* The listeners onCanvasLoaded attaches.
InputListeners(w) ==
  IF w.env.PointerEvent
    THEN { <<"canvas", "pointerdown", "onPointerDown">>,
           <<"body", "pointerup", "onPointerUp">>,
           <<"body", "pointerleave", "onPointerUp">>,
           <<"body", "pointermove", "onPointerMove">> }
    ELSE { <<"canvas", "mousedown", "onPointerDown">>,
           <<"body", "mouseup", "onPointerUp">>,
           <<"body", "mouseleave", "onPointerUp">>,
           <<"body", "mousemove", "onPointerMove">>,
           <<"canvas", "touchstart", "onPointerDown">>,
           <<"body", "touchend", "onPointerUp">>,
           <<"body", "touchmove", "onPointerMove">> }

ResizeListener == <<"window", "resize", "debounce(onResize)">>

\* A build that forgets the first requestAnimationFrame(draw).
buildWidgetNoFrame(w) ==
  LET built == [w EXCEPT !.appended = TRUE,
                         !.minPointDist = Ratio(2 * BrushHalf, 2),
                         !.listeners = @ \cup InputListeners(w) \cup {ResizeListener}]
      sized == onResize(built)
  IN  [sized EXCEPT !.loadedCalls = @ + 1, !.calls = Append(@, "loaded")]

\* "Build and initialize the widget": append the canvas, take the brush's half
\* width as the spacing, attach the listeners, onResize(), request the first
\* frame, loadedCallback().
buildWidget(w) ==
  LET built == [w EXCEPT !.appended = TRUE,
                         !.minPointDist = Ratio(2 * BrushHalf, 2),
                         !.listeners = @ \cup InputListeners(w) \cup {ResizeListener}]
      sized == onResize(built)
  IN  [sized EXCEPT !.rafPending = @ + 1, !.loadedCalls = @ + 1,
                    !.calls = Append(@, "loaded")]

\* A failure check that is content with one canvas.
canvasesLoadedEither(w) == w.overlayCanvas = "canvas" \/ w.brushCanvas = "canvas"

\* overlayCanvas && brushCanvas
canvasesLoaded(w) == w.overlayCanvas = "canvas" /\ w.brushCanvas = "canvas"

\* A join that forgets the brush.
onCanvasLoadedOverlayOnly(w) ==
  IF ~w.overlayLoaded THEN w
  ELSE IF w.overlayCanvas # "canvas" THEN [w EXCEPT !.errorLogs = @ + 1]
  ELSE buildWidget(w)

onCanvasLoaded(w) ==
  IF ~(w.overlayLoaded /\ w.brushLoaded) THEN w
  ELSE IF ~canvasesLoaded(w) THEN [w EXCEPT !.errorLogs = @ + 1]
  ELSE buildWidget(w)

\* The callback construct gives getCanvasFromImage for the overlay.
overlayCallback(w, canvas) ==
  onCanvasLoaded([w EXCEPT !.overlayLoaded = TRUE, !.overlayCanvas = canvas,
                           !.overlayImage = "settled"])

\* The callback construct gives getCanvasFromImage for the brush.
brushCallback(w, canvas) ==
  onCanvasLoaded([w EXCEPT !.brushLoaded = TRUE, !.brushCanvas = canvas,
                           !.brushImage = "settled"])

\* getCanvasFromImage(overlayUrl, callback, true): a url that is no string calls
\* back with false at once; otherwise the image starts loading.
getOverlayFromImage(w, urlIsString) ==
  IF ~urlIsString THEN overlayCallback(w, "false")
  ELSE [w EXCEPT !.overlayImage = "loading"]

getBrushFromImage(w, urlIsString) ==
  IF ~urlIsString THEN brushCallback(w, "false")
  ELSE [w EXCEPT !.brushImage = "loading"]

(* ---------------------------- construction ---------------------------- *)

\* The values given as the parent element.
Element  == [isObject |-> TRUE,  nodeType |-> 1, nodeNameIsString |-> TRUE]
TextNode == [isObject |-> TRUE,  nodeType |-> 3, nodeNameIsString |-> TRUE]
Null     == [isObject |-> FALSE, nodeType |-> 0, nodeNameIsString |-> FALSE]

\* A test that accepts any object.
isDomElementAnyObject(el) == el.isObject

\* isDomElement, on the branch of browsers whose HTMLElement is a function.
isDomElement(el) == el.isObject /\ el.nodeType = 1 /\ el.nodeNameIsString

\* Math.max(0, Math.min(100, threshold))
Clamp(threshold) == Max(ThresholdMin, Min(ThresholdMax, threshold))

construct(w, el, overlayUrlIsString, brushUrlIsString, callbackIsFunction, threshold) ==
  IF ~isDomElement(el)
    THEN [w EXCEPT !.thrown = "ScratchIt() requires parent element to be a valid DOM Element."]
  ELSE IF ~callbackIsFunction
    THEN [w EXCEPT !.thrown = "ScratchIt() requires callback to be a function"]
  ELSE
    LET configured == [w EXCEPT !.revealThreshold = Clamp(threshold)]
    IN  getBrushFromImage(getOverlayFromImage(configured, overlayUrlIsString),
                          brushUrlIsString)

\* myInit: the probe decides between constructing and 'notSupported'.  The
\* container is document.getElementById('scratch'), the callback is reveal.
myInit(w, el, overlayUrlIsString, brushUrlIsString, threshold) ==
  IF isSupported(w)
    THEN construct(w, el, overlayUrlIsString, brushUrlIsString, TRUE, threshold)
    ELSE [w EXCEPT !.notSupportedSent = @ + 1]

(* ------------------------ the stroke interpolator --------------------- *)

\* A point before rounding: x = xn / den, y = yn / den.
\* { x: px * scale, y: py * scale } for integers px, py.
Scaled(px, py, sc) == [xn |-> px * sc.num, yn |-> py * sc.num, den |-> sc.den]

\* { x: Math.round(point.x), y: Math.round(point.y) }
Rounded(point) == [x |-> Round(point.xn, point.den), y |-> Round(point.yn, point.den)]

\* dx = lastPoint.x - point.x and dy, as numerators over point.den.
DeltaX(last, point) == last.x * point.den - point.xn
DeltaY(last, point) == last.y * point.den - point.yn

\* dist * dist, as a numerator over point.den * point.den.
DistSquared(last, point) ==
  DeltaX(last, point) * DeltaX(last, point) + DeltaY(last, point) * DeltaY(last, point)

\* dist > minPointDist, both sides squared (m = m.num / m.den > 0).
TooFar(last, point, m) ==
  DistSquared(last, point) * m.den * m.den > m.num * m.num * point.den * point.den

\* Math.floor in place of Math.ceil.
numSegmentsFloor(last, point, m) ==
  LeastSquareAtLeast(1, DistSquared(last, point) * m.den * m.den + 1,
                     m.num * m.num * point.den * point.den) - 1

\* Math.ceil(dist / minPointDist): the least n with n * minPointDist >= dist.
numSegments(last, point, m) ==
  LeastSquareAtLeast(1, DistSquared(last, point) * m.den * m.den,
                     m.num * m.num * point.den * point.den)

\* Intermediate points stepped from lastPoint instead of from the new point.
TweenPointsFromLast(last, point, m) ==
  LET n == numSegments(last, point, m)
  IN  [i \in 1 .. (n - 1) |->
         [x |-> Round(last.x * point.den * n + i * DeltaX(last, point), point.den * n),
          y |-> Round(last.y * point.den * n + i * DeltaY(last, point), point.den * n)]]

\* for (i = 1; i < numSegments; i++) push { x: Math.round(point.x + i * dx), ... }
\* with dx and dy already divided by numSegments.
TweenPoints(last, point, m) ==
  LET n == numSegments(last, point, m)
  IN  [i \in 1 .. (n - 1) |->
         [x |-> Round(point.xn * n + i * DeltaX(last, point), point.den * n),
          y |-> Round(point.yn * n + i * DeltaY(last, point), point.den * n)]]

\* addPoint without `tween = !!tween`: it interpolates whenever lastPoint is set.
addPointAlwaysTween(w, point, tween) ==
  LET between ==
        IF w.lastPoint # Undefined /\ TooFar(w.lastPoint, point, w.minPointDist)
          THEN TweenPoints(w.lastPoint, point, w.minPointDist)
          ELSE << >>
  IN  [w EXCEPT !.lastPoint = Rounded(point),
                !.paintQueue = (@ \o between) \o << Rounded(point) >>]

addPoint(w, point, tween) ==
  LET between ==
        IF tween /\ w.lastPoint # Undefined /\ TooFar(w.lastPoint, point, w.minPointDist)
          THEN TweenPoints(w.lastPoint, point, w.minPointDist)
          ELSE << >>
  IN  [w EXCEPT !.lastPoint = Rounded(point),
                !.paintQueue = (@ \o between) \o << Rounded(point) >>]

(* ----------------------------- compositing ---------------------------- *)

\* globalCompositeOperation = 'xor': what only one of the two covers.
CompositeXor(dst, src) ==
  (dst * (Opaque - src) + src * (Opaque - dst) + Opaque \div 2) \div Opaque

\* globalCompositeOperation = 'destination-out': the destination keeps
\* alpha * (1 - source alpha), to the nearest 8-bit value.
DestinationOut(dst, src) == (dst * (Opaque - src) + Opaque \div 2) \div Opaque

\* The pixels drawImage(brushCanvas, point.x - width / 2, point.y - height / 2) covers.
Covers(point, q) ==
  /\ point.x - BrushHalf <= q[1] /\ q[1] < point.x + BrushHalf
  /\ point.y - BrushHalf <= q[2] /\ q[2] < point.y + BrushHalf

\* One stamp of the brush at `point`.
Stamp(px, point, alpha) ==
  [q \in Pixels |-> IF Covers(point, q) THEN DestinationOut(px[q], alpha) ELSE px[q]]

\* while (paintQueue.length) { point = paintQueue.shift(); drawImage(...) }
RECURSIVE Drain(_, _, _)
Drain(px, queue, alpha) ==
  IF queue = << >> THEN px
  ELSE Drain(Stamp(px, Head(queue), alpha), Tail(queue), alpha)

(* ---------------------------- reveal detector ------------------------- *)

\* numVisible: the pixels whose alpha is at or below alphaThreshold.
numVisible(px) == Cardinality({q \in Pixels : px[q] <= alphaThreshold})

totalPixels == OverlayW * OverlayH

\* > in place of >=.
ThresholdExceeded(px, threshold) == numVisible(px) * 100 > threshold * totalPixels

\* (numVisible / totalPixels * 100) >= revealThreshold, without the division.
ThresholdReached(px, threshold) == numVisible(px) * 100 >= threshold * totalPixels

\* A reveal test without its `if (isRevealed) return`.
testRevealedUnguarded(w) ==
  IF ThresholdReached(w.pixels, w.revealThreshold)
    THEN [w EXCEPT !.revealCalls = @ + 1, !.calls = Append(@, "reveal"),
                   !.isRevealed = TRUE]
    ELSE w

\* A reveal test that counts the stamps still waiting in the paint queue.
testRevealedWithQueued(w) ==
  IF w.isRevealed THEN w
  ELSE IF ThresholdReached(Drain(w.pixels, w.paintQueue, w.brushAlpha), w.revealThreshold)
    THEN [w EXCEPT !.revealCalls = @ + 1, !.calls = Append(@, "reveal"),
                   !.isRevealed = TRUE]
    ELSE w

testRevealed(w) ==
  IF w.isRevealed THEN w
  ELSE IF ThresholdReached(w.pixels, w.revealThreshold)
    THEN [w EXCEPT !.revealCalls = @ + 1, !.calls = Append(@, "reveal"),
                   !.isRevealed = TRUE]
    ELSE w

(* ------------------------------ pointer events ------------------------ *)

\* A pointer, mouse or touch event with the pointer at offset `off` of the canvas.
\* A touch event has no offsetX (offsetIsNumber is false: the fields offsetX and
\* offsetY are then not read); its coordinates are those of its first touch.
Event(kind, off) ==
  [ kind |-> kind,
    clientX |-> CanvasRect.left + off.x, clientY |-> CanvasRect.top + off.y,
    offsetIsNumber |-> kind # "touch", offsetX |-> off.x, offsetY |-> off.y ]

\* The kinds of event the attached listeners receive.
EventKinds(w) == IF w.env.PointerEvent THEN {"pointer"} ELSE {"mouse", "touch"}

getPointFromEvent(event) == [x |-> event.clientX, y |-> event.clientY]

\* offsetX when it is a number; the first touch relative to the canvas'
\* bounding rectangle otherwise (a native event has no originalEvent).
getOffsetPointFromEvent(event) ==
  IF event.offsetIsNumber
    THEN [x |-> event.offsetX, y |-> event.offsetY]
    ELSE [x |-> event.clientX - CanvasRect.left, y |-> event.clientY - CanvasRect.top]

onPointerDown(w, event) ==
  LET down == [w EXCEPT !.isPointerDown = TRUE,
                        !.pointerOrigin = getPointFromEvent(event),
                        !.offsetOrigin = getOffsetPointFromEvent(event)]
      added == addPoint(down, Scaled(down.offsetOrigin.x, down.offsetOrigin.y, down.scale),
                        FALSE)
  IN  [added EXCEPT !.downCalls = @ + 1, !.calls = Append(@, "down")]

\* A move handler without its `if (!isPointerDown) return`.
onPointerMoveUnguarded(w, event) ==
  LET pointerPosition == getPointFromEvent(event)
  IN  addPoint(w,
               Scaled(w.offsetOrigin.x + (pointerPosition.x - w.pointerOrigin.x),
                      w.offsetOrigin.y + (pointerPosition.y - w.pointerOrigin.y),
                      w.scale),
               TRUE)

onPointerMove(w, event) ==
  IF ~w.isPointerDown THEN w
  ELSE
    LET pointerPosition == getPointFromEvent(event)
    IN  addPoint(w,
                 Scaled(w.offsetOrigin.x + (pointerPosition.x - w.pointerOrigin.x),
                        w.offsetOrigin.y + (pointerPosition.y - w.pointerOrigin.y),
                        w.scale),
                 TRUE)

\* A release handler without its `if (!isPointerDown) return`.
onPointerUpUnguarded(w) ==
  LET up == [w EXCEPT !.isPointerDown = FALSE,
                      !.lastPoint = Undefined,
                      !.pointerOrigin = Origin,
                      !.offsetOrigin = Origin]
      hooked == [up EXCEPT !.upCalls = @ + 1, !.calls = Append(@, "up")]
  IN  testRevealed(hooked)

\* A release that runs the reveal test before the stroke-end callback.
onPointerUpTestFirst(w) ==
  IF ~w.isPointerDown THEN w
  ELSE
    LET up == testRevealed([w EXCEPT !.isPointerDown = FALSE,
                                     !.lastPoint = Undefined,
                                     !.pointerOrigin = Origin,
                                     !.offsetOrigin = Origin])
    IN  [up EXCEPT !.upCalls = @ + 1, !.calls = Append(@, "up")]

onPointerUp(w) ==
  IF ~w.isPointerDown THEN w
  ELSE
    LET up == [w EXCEPT !.isPointerDown = FALSE,
                        !.lastPoint = Undefined,
                        !.pointerOrigin = Origin,
                        !.offsetOrigin = Origin]
        hooked == [up EXCEPT !.upCalls = @ + 1, !.calls = Append(@, "up")]
    IN  testRevealed(hooked)

(* ------------------------------ render loop --------------------------- *)

\* paintQueue.pop() in place of shift(): from the back.
popped(queue) == [i \in 1 .. Len(queue) |-> queue[Len(queue) + 1 - i]]

\* The order in which paintQueue.shift() hands out the points: from the front.
shifted(queue) == queue

\* A render loop that tests for the reveal after it has stamped.
drawThenTest(w) ==
  testRevealed([w EXCEPT !.pixels = Drain(w.pixels, shifted(w.paintQueue), w.brushAlpha),
                         !.drawn = @ \o shifted(w.paintQueue),
                         !.paintQueue = << >>,
                         !.rafPending = (@ - 1) + 1])

\* draw: drain the queue, then requestAnimationFrame(draw) again.
draw(w) ==
  [w EXCEPT !.pixels = Drain(w.pixels, shifted(w.paintQueue), w.brushAlpha),
            !.drawn = @ \o shifted(w.paintQueue),
            !.paintQueue = << >>,
            !.rafPending = (@ - 1) + 1]

(* ------------------------------- actions ------------------------------ *)

\* The host glue runs myInit once the document is complete.
MyInit ==
  /\ pc = "start"
  /\ \E el \in {Element, Null}, overlayUrlIsString \in BOOLEAN,
        brushUrlIsString \in BOOLEAN, threshold \in ThresholdArgs :
       Becomes([myInit(World, el, overlayUrlIsString, brushUrlIsString, threshold)
                  EXCEPT !.pc = "myInit"])

\* Another caller of the exported ScratchIt, in a browser that has what the
\* library requires (canvas and requestAnimationFrame).
CallScratchIt ==
  /\ pc = "start"
  /\ isSupported(World)
  /\ \E el \in {Element, TextNode, Null}, overlayUrlIsString \in BOOLEAN,
        brushUrlIsString \in BOOLEAN, callbackIsFunction \in BOOLEAN,
        threshold \in ThresholdArgs :
       Becomes([construct(World, el, overlayUrlIsString, brushUrlIsString,
                          callbackIsFunction, threshold)
                  EXCEPT !.pc = "ScratchIt"])

\* image.onload of the overlay: resizeParentEl fits the container to the
\* body; then the canvas is handed to the callback, on IE9 after a setTimeout.
OverlayOnload ==
  /\ overlayImage = "loading"
  /\ LET fitted == [World EXCEPT !.containerWidth = FittedWidth]
     IN  IF env.ie9
           THEN Becomes([fitted EXCEPT !.overlayImage = "breather"])
           ELSE Becomes(overlayCallback(fitted, "canvas"))

\* The IE9 setTimeout of the overlay load.
OverlayBreather ==
  /\ overlayImage = "breather"
  /\ Becomes(overlayCallback(World, "canvas"))

\* image.onerror of the overlay.
OverlayOnerror ==
  /\ overlayImage = "loading"
  /\ Becomes(overlayCallback(World, "false"))

\* image.onload of the brush.
BrushOnload ==
  /\ brushImage = "loading"
  /\ IF env.ie9
       THEN Becomes([World EXCEPT !.brushImage = "breather"])
       ELSE Becomes(brushCallback(World, "canvas"))

\* The IE9 setTimeout of the brush load.
BrushBreather ==
  /\ brushImage = "breather"
  /\ Becomes(brushCallback(World, "canvas"))

\* image.onerror of the brush.
BrushOnerror ==
  /\ brushImage = "loading"
  /\ Becomes(brushCallback(World, "false"))

\* A frame: the browser runs the pending requestAnimationFrame callback.
Frame ==
  /\ rafPending > 0
  /\ Becomes(draw(World))

\* The input listeners are attached.
Listening == InputListeners(World) \subseteq listeners

\* The canvas is displayed at the container's width; a press lands inside it.
InsideCanvas(off) ==
  /\ off.x < containerWidth
  /\ off.y * OverlayW < containerWidth * OverlayH

\* pointerdown, mousedown or touchstart on the canvas, while it is displayed.
PointerDown ==
  /\ Listening
  /\ ~detached
  /\ events < MaxEvents
  /\ \E kind \in EventKinds(World), off \in PointerOffsets :
       /\ InsideCanvas(off)
       /\ Becomes([onPointerDown(World, Event(kind, off)) EXCEPT !.events = @ + 1])

\* pointermove, mousemove or touchmove anywhere on the body.
PointerMove ==
  /\ Listening
  /\ events < MaxEvents
  /\ \E kind \in EventKinds(World), off \in PointerOffsets :
       Becomes([onPointerMove(World, Event(kind, off)) EXCEPT !.events = @ + 1])

\* pointerup, pointerleave, mouseup, mouseleave or touchend on the body.
PointerUp ==
  /\ Listening
  /\ Becomes(onPointerUp(World))

\* A resize event of the window: the container may get another width, and the
\* debounced listener runs.
WindowResize ==
  /\ ResizeListener \in listeners
  /\ events < MaxEvents
  /\ \E width \in ContainerWidths :
       Becomes(debounced([World EXCEPT
         !.containerWidth = width,
         !.burst = IF sinceResize < ResizeWait THEN @ + 1 ELSE 1,
         !.sinceResize = 0,
         !.resizeRuns = 0,
         !.events = @ + 1]))

\* A debounce timer whose wait has elapsed fires (the oldest first).
ResizeTimer ==
  /\ timers # << >>
  /\ Head(timers) >= ResizeWait
  /\ Becomes(later(World))

\* Time passes (the clock is followed up to ResizeWait after a resize event).
Tick ==
  /\ \/ sinceResize < ResizeWait
     \/ \E i \in 1 .. Len(timers) : timers[i] < ResizeWait
  /\ Becomes([World EXCEPT
       !.timers = [i \in 1 .. Len(timers) |-> Min(ResizeWait, timers[i] + TickMs)],
       !.sinceResize = Min(ResizeWait, @ + TickMs)])

Next ==
  \/ MyInit
  \/ CallScratchIt
  \/ OverlayOnload
  \/ OverlayBreather
  \/ OverlayOnerror
  \/ BrushOnload
  \/ BrushBreather
  \/ BrushOnerror
  \/ Frame
  \/ PointerDown
  \/ PointerMove
  \/ PointerUp
  \/ WindowResize
  \/ ResizeTimer
  \/ Tick

Spec == Init /\ [][Next]_vars

\* The host removes the container, and the canvas in it, from the document.
\* ScratchIt has no listener for that and offers no method to call: nothing of
\* its state changes.
Detach ==
  /\ appended
  /\ ~detached
  /\ events < MaxEvents
  /\ Becomes([World EXCEPT !.detached = TRUE, !.events = @ + 1])

\* The widget in a host that may detach it.
SpecDetach == Init /\ [][Next \/ Detach]_vars

\* The browser keeps running frames.
FairSpec == Spec /\ WF_vars(Frame)

(* ------------------------------- claims ------------------------------- *)

\* Every overlay pixel is at or below the alpha cutoff.
AllRevealed == \A q \in Pixels : pixels[q] <= alphaThreshold

\* C1: the engine calls the reveal callback at most once; once isRevealed is
\* true it stays true, and no later step (a later reveal test included) calls
\* the callback again.
C1_RevealAtMostOnce ==
  /\ [](revealCalls <= 1)
  /\ [][isRevealed => (isRevealed' /\ revealCalls' = revealCalls)]_vars

\* A second stroke was released after the first release had revealed
\* (threshold 0 reveals at the first release).
C1_Witness ==
  Listening /\ revealThreshold = 0 /\ isRevealed /\ revealCalls = 1 /\ upCalls >= 2

C3_FailedLoadNeverInteractive ==
  (overlayCanvas = "false" \/ brushCanvas = "false")
    => (listeners = {} /\ rafPending = 0 /\ ~appended /\ loadedCalls = 0)

\* The overlay loaded, the brush failed after it, and the failure was logged.
C3_Witness ==
  overlayCanvas = "canvas" /\ brushCanvas = "false" /\ errorLogs = 1

\* The point a move event at offset `off` hands to addPoint.
MovedPoint(kind, off) ==
  Scaled(offsetOrigin.x + (Event(kind, off).clientX - pointerOrigin.x),
         offsetOrigin.y + (Event(kind, off).clientY - pointerOrigin.y),
         scale)

\* This step is onPointerMove for a move event at `off` during a stroke.
TweenedMove(kind, off) ==
  /\ Listening /\ isPointerDown /\ lastPoint # Undefined
  /\ events' = events + 1 /\ downCalls' = downCalls /\ upCalls' = upCalls
  /\ lastPoint' = Rounded(MovedPoint(kind, off))
  /\ Becomes([onPointerMove(World, Event(kind, off)) EXCEPT !.events = @ + 1])

\* d * d and m * m over a common denominator, for the previous point
\* lastPoint, the new point and the spacing m = minPointDist.
DistSq(point) == DistSquared(lastPoint, point) * minPointDist.den * minPointDist.den
SpacingSq(point) == minPointDist.num * minPointDist.num * point.den * point.den

\* n = ceil(d / m): (n - 1) * m < d <= n * m.
IsCeil(n, point) ==
  /\ n >= 1
  /\ (n - 1) * (n - 1) * SpacingSq(point) < DistSq(point)
  /\ DistSq(point) <= n * n * SpacingSq(point)

C5_AsStated ==
  ( /\ Listening /\ ~isPointerDown /\ upCalls >= 1 /\ downCalls = upCalls
    /\ paintQueue = << >> /\ AllRevealed )
    => (revealCalls = 1 /\ isRevealed)

\* C6: with threshold 0 the callback has been called once a stroke has been
\* released; with threshold 100 a step calls it only if every pixel is at or
\* below the alpha cutoff.
C6_ThresholdBounds ==
  /\ []((Listening /\ revealThreshold = 0 /\ upCalls >= 1)
          => (revealCalls = 1 /\ isRevealed))
  /\ [][(Listening /\ revealThreshold = 100 /\ revealCalls' > revealCalls)
          => AllRevealed]_vars

\* With threshold 100 the callback was called.
C6_Witness ==
  Listening /\ revealThreshold = 100 /\ isRevealed /\ revealCalls = 1

\* C7: no step turns a revealed pixel back into an unrevealed one, and the
\* count of revealed pixels never decreases.
C7_RevealedNeverDecreases ==
  [][/\ \A q \in Pixels : pixels[q] <= alphaThreshold => pixels'[q] <= alphaThreshold
     /\ numVisible(pixels') >= numVisible(pixels)]_vars

\* Part of the overlay is erased, and a later stroke pressed on an erased pixel.
C7_Witness ==
  /\ Listening /\ numVisible(pixels) > 0 /\ downCalls >= 2
  /\ lastPoint # Undefined
  /\ \E q \in Pixels : Covers(lastPoint, q) /\ pixels[q] <= alphaThreshold

\* C8: since the widget is ready, onResize has run at most once since the
\* last resize event, and exactly once when no timer is pending; a resize
\* event itself leaves the scale as it is; onResize runs only when ResizeWait
\* has passed since the last resize event, and sets the scale to overlay
\* width / container width.
C8_DebouncedResize ==
  /\ [](Listening => (resizeRuns <= 1 /\ (timers = << >> <=> resizeRuns = 1)))
  /\ [][WindowResize => scale' = scale]_vars
  /\ [][(Listening /\ resizeRuns' > resizeRuns)
          => /\ sinceResize >= ResizeWait
             /\ scale'.num * containerWidth' = scale'.den * OverlayW]_vars

\* A burst of two resize events or more ended in one recomputation, to a scale
\* other than 1.
C8_Witness ==
  /\ Listening /\ burst >= 2 /\ timers = << >> /\ resizeRuns = 1
  /\ scale.num # scale.den

\* C9: in a browser without requestAnimationFrame or without a 2D context no
\* construction is attempted: no load starts, nothing is thrown, configured or
\* attached, and once myInit has run 'notSupported' has been sent once.
C9_UnsupportedNeverConstructs ==
  ~(env.raf /\ env.canvas2d) =>
    /\ overlayImage = "none" /\ brushImage = "none"
    /\ ~overlayLoaded /\ ~brushLoaded
    /\ thrown = "" /\ revealThreshold = NoThreshold
    /\ listeners = {} /\ rafPending = 0 /\ loadedCalls = 0
    /\ (pc # "start" => notSupportedSent = 1)

\* myInit ran in a browser without requestAnimationFrame.
C9_Witness == ~env.raf /\ pc = "myInit" /\ notSupportedSent = 1

\* A call of the constructor with these arguments.
Constructs(el, overlayUrlIsString, brushUrlIsString, callbackIsFunction, threshold) ==
  /\ pc = "start"
  /\ Becomes([construct(World, el, overlayUrlIsString, brushUrlIsString,
                        callbackIsFunction, threshold)
                EXCEPT !.pc = "ScratchIt"])

\* C10: a construction with a parent that is no element, or with a callback
\* that is no function, throws; and once construct has thrown, no load has
\* started or settled, no listener is attached, no frame is requested and the
\* ready callback has not been called.
C10_InvalidArgumentsAbort ==
  /\ [](thrown # "" =>
          /\ overlayImage = "none" /\ brushImage = "none"
          /\ ~overlayLoaded /\ ~brushLoaded
          /\ listeners = {} /\ rafPending = 0 /\ loadedCalls = 0)
  /\ [][pc = "start" =>
          \A el \in {Element, TextNode, Null}, overlayUrlIsString \in BOOLEAN,
             brushUrlIsString \in BOOLEAN, callbackIsFunction \in BOOLEAN,
             threshold \in ThresholdArgs :
             ( /\ el # Element \/ ~callbackIsFunction
               /\ Constructs(el, overlayUrlIsString, brushUrlIsString,
                             callbackIsFunction, threshold) )
               => thrown' # ""]_vars

\* The constructor threw for a callback that is no function.
C10_Witness ==
  pc = "ScratchIt" /\ thrown = "ScratchIt() requires callback to be a function"

\* C11: the engine has a teardown: once the widget is detached no listener is
\* left attached and no frame reschedules the render loop; and the count of
\* pending frames only ever drops through the teardown.
C11_AsStated ==
  /\ [](detached => listeners = {})
  /\ [][detached /\ Frame => rafPending' = 0]_vars
  /\ [][rafPending' < rafPending => detached']_vars

\* The points a step appended to the paint queue.
Added == SubSeq(paintQueue', Len(paintQueue) + 1, Len(paintQueue'))

\* p is within half a unit, in each coordinate, of the point i n-ths of the
\* way from the new point to lastPoint.
NearIdeal(p, i, n, point) ==
  LET den == point.den * n
      ix  == point.xn * n + i * DeltaX(lastPoint, point)
      iy  == point.yn * n + i * DeltaY(lastPoint, point)
  IN  /\ 2 * (p.x * den - ix) <= den /\ 2 * (ix - p.x * den) <= den
      /\ 2 * (p.y * den - iy) <= den /\ 2 * (iy - p.y * den) <= den

\* C12: on a tweened move from P = lastPoint to Q with d > m, the n points
\* added and P are the n + 1 points that divide the segment Q-P into n equal
\* parts, each coordinate rounded to the nearest integer, and a part is at most
\* m long (d / n <= m).
C12_EvenSpacing ==
  [][\A kind \in EventKinds(World), off \in PointerOffsets :
       TweenedMove(kind, off) =>
         LET point == MovedPoint(kind, off)
             n     == Len(Added)
             chain == Added \o << lastPoint >>
         IN  DistSq(point) > SpacingSq(point) =>
               /\ DistSq(point) <= n * n * SpacingSq(point)
               /\ \A i \in 0 .. n : \E j \in 1 .. (n + 1) :
                    NearIdeal(chain[j], i, n, point)
               /\ \A j \in 1 .. (n + 1) : \E i \in 0 .. n :
                    NearIdeal(chain[j], i, n, point)]_vars

\* At half scale, a press and a move whose intermediate point falls between
\* pixels.
C12_Witness ==
  /\ isPointerDown /\ downCalls = 1 /\ scale.num * 2 = scale.den
  /\ Len(paintQueue) = 3 /\ paintQueue[2] # paintQueue[1] /\ paintQueue[2] # paintQueue[3]

\* a is a prefix of b.
IsPrefix(a, b) == Len(a) <= Len(b) /\ SubSeq(b, 1, Len(a)) = a

\* C13: the points stamped so far followed by the points queued are the points
\* enqueued so far, in their order, and a step only appends to that sequence:
\* no point is stamped twice, skipped or overtaken. A step that stamps
\* leaves the queue empty and one frame requested, and the queue only ever
\* shrinks by stamping. With frames run fairly a non-empty queue is eventually
\* drained.
C13_DrainFifo ==
  /\ [][ /\ IsPrefix(drawn \o paintQueue, drawn' \o paintQueue')
         /\ IsPrefix(drawn, drawn')
         /\ (drawn' # drawn => paintQueue' = << >> /\ rafPending' = 1)
         /\ (~IsPrefix(paintQueue, paintQueue') => drawn' = drawn \o paintQueue) ]_vars
  /\ (paintQueue # << >>) ~> (paintQueue = << >>)

\* A frame has stamped the two different points of a stroke and a later move
\* has queued more.
C13_Witness ==
  Len(drawn) >= 2 /\ drawn[1] # drawn[2] /\ paintQueue # << >>

\* C14: a pointer-up while no stroke is active changes nothing. During a
\* stroke it ends the stroke, clears lastPoint, calls the stroke-end callback
\* once and then tests for the reveal once: the reveal callback, when the test
\* calls it, comes after the stroke-end callback, and it is called exactly when
\* the widget was not revealed and the overlay read at the release is at or
\* above the threshold.
C14_PointerUp ==
  [][PointerUp =>
       IF ~isPointerDown
         THEN UNCHANGED vars
         ELSE /\ ~isPointerDown' /\ lastPoint' = Undefined
              /\ upCalls' = upCalls + 1
              /\ calls' = IF ~isRevealed /\ ThresholdReached(pixels, revealThreshold)
                            THEN calls \o << "up", "reveal" >>
                            ELSE calls \o << "up" >>
              /\ revealCalls' - revealCalls = Len(calls') - Len(calls) - 1]_vars

\* A release has just called the stroke-end callback and then the reveal
\* callback.
C14_Witness ==
  /\ ~isPointerDown /\ Len(calls) >= 2
  /\ calls[Len(calls) - 1] = "up" /\ calls[Len(calls)] = "reveal"

\* C15: a move event while no stroke is active leaves the paint queue,
\* lastPoint, the stroke origins, the scale and isRevealed as they were.
C15_IdleMove ==
  [][(~isPointerDown /\ events' = events + 1 /\ PointerMove) =>
       UNCHANGED << paintQueue, lastPoint, pointerOrigin, offsetOrigin, scale,
                    isRevealed >>]_vars

\* One press, released, and one move before it or after its release: the
\* stroke's single point is all that was ever queued.
C15_Witness ==
  /\ Listening /\ ~isPointerDown /\ events = 2 /\ burst = 0
  /\ downCalls = 1 /\ upCalls = 1 /\ Len(drawn) + Len(paintQueue) = 1

\* This step is onPointerDown for a press at offset `off` of the canvas.
PressedAt(kind, off) ==
  /\ Listening /\ ~detached /\ InsideCanvas(off)
  /\ events' = events + 1
  /\ Becomes([onPointerDown(World, Event(kind, off)) EXCEPT !.events = @ + 1])

\* C16: a press adds exactly one point to the paint queue, the offset of the
\* press times the scale, rounded, whatever lastPoint was; it makes the stroke
\* active and calls the stroke-start callback once.
C16_PointerDown ==
  [][\A kind \in EventKinds(World), off \in PointerOffsets :
       PressedAt(kind, off) =>
         /\ Added = << Rounded(Scaled(off.x, off.y, scale)) >>
         /\ lastPoint' = Rounded(Scaled(off.x, off.y, scale))
         /\ isPointerDown'
         /\ downCalls' = downCalls + 1
         /\ calls' = Append(calls, "down")]_vars

\* A second press far from the only point of a first stroke: the queue and
\* the canvas hold the two points and nothing between them.
C16_Witness ==
  /\ isPointerDown /\ downCalls = 2 /\ events = 2
  /\ Len(drawn \o paintQueue) = 2
  /\ LET all == drawn \o paintQueue
     IN  (all[1].x - all[2].x) * (all[1].x - all[2].x) > BrushHalf * BrushHalf

\* C17: a step that calls the reveal callback or sets isRevealed is the
\* handling of a pointer release that ends a stroke; a press, a move, a
\* resize or a frame never does, whatever it leaves on the overlay.
C17_RevealOnlyOnRelease ==
  [][(revealCalls' # revealCalls \/ isRevealed' # isRevealed) =>
       (isPointerDown /\ upCalls' = upCalls + 1 /\ PointerUp)]_vars

\* A frame has stamped the overlay up to a positive threshold and more, and
\* the widget is not revealed.
C17_Witness ==
  /\ Listening /\ revealThreshold > 0 /\ drawn # << >> /\ paintQueue = << >>
  /\ ThresholdReached(pixels, revealThreshold)
  /\ ~isRevealed /\ revealCalls = 0

\* C18: the release of a stroke calls the reveal callback exactly when the
\* widget was not revealed and the overlay as composited so far is at or above
\* the threshold; it neither stamps nor drops the points still queued, and the
\* step that stamps them later runs no reveal test.
C18_TestReadsComposited ==
  /\ [][(isPointerDown /\ PointerUp) =>
          /\ (revealCalls' = revealCalls + 1)
               <=> (~isRevealed /\ ThresholdReached(pixels, revealThreshold))
          /\ pixels' = pixels /\ paintQueue' = paintQueue /\ drawn' = drawn]_vars
  /\ [][drawn' # drawn =>
          (revealCalls' = revealCalls /\ isRevealed' = isRevealed /\ calls' = calls)]_vars

\* A stroke was released while stamps that reach the threshold were still
\* queued: the test did not count them.
C18_Witness ==
  /\ Listening /\ ~isPointerDown /\ upCalls >= 1 /\ paintQueue # << >>
  /\ ~isRevealed
  /\ ~ThresholdReached(pixels, revealThreshold)
  /\ ThresholdReached(Drain(pixels, paintQueue, brushAlpha), revealThreshold)

\* C19: no frame callback is pending, no listener is attached and no point
\* has been queued or stamped until both canvases exist; from then on exactly
\* one frame callback is pending.
C19_OneFramePending ==
  IF overlayCanvas = "canvas" /\ brushCanvas = "canvas"
    THEN rafPending = 1
    ELSE rafPending = 0 /\ listeners = {} /\ paintQueue = << >> /\ drawn = << >>

\* Frames have run and stamped, a stroke is queued, and one frame callback is
\* pending.
C19_Witness ==
  /\ overlayCanvas = "canvas" /\ brushCanvas = "canvas"
  /\ drawn # << >> /\ paintQueue # << >> /\ rafPending = 1

\* How often a callback appears in the log.
Count(name) == Cardinality({i \in 1 .. Len(calls) : calls[i] = name})

\* C20: every call of the stroke-end callback comes after a call of the
\* stroke-start callback with no other stroke-end call between the two, and
\* the stroke-end callback has never been called more often than the
\* stroke-start callback.
C20_EndFollowsStart ==
  /\ \A i \in 1 .. Len(calls) :
       calls[i] = "up" =>
         \E j \in 1 .. (i - 1) :
           /\ calls[j] = "down"
           /\ \A k \in (j + 1) .. (i - 1) : calls[k] # "up"
  /\ upCalls <= downCalls
  /\ upCalls = Count("up") /\ downCalls = Count("down")

\* Two presses with no release between them, then one release: the
\* stroke-start callback ran twice and the stroke-end callback once.
C20_Witness ==
  /\ ~isPointerDown /\ downCalls = 2 /\ upCalls = 1
  /\ Len(calls) >= 4 /\ calls[2] = "down" /\ calls[3] = "down" /\ calls[4] = "up"

====
